---- MODULE Spec2Model ----
(***************************************************************************)
(* Block verification core of beacon-kit: the blockchain service's         *)
(* ProcessProposal / VerifyIncomingBlock / verifyStateRoot, the StateDB    *)
(* copy-on-write handle (Copy / WithContext / Save) and the execution      *)
(* engine adapter (NotifyForkchoiceUpdate / VerifyAndNotifyNewPayload).    *)
(***************************************************************************)
EXTENDS Integers, Sequences, FiniteSets, TLC

\* ------------------------------------------------------------------ bounds
\* Blob sidecars carried by one proposal.
MaxSidecars == 1
\* Background build tasks that may be pending at once.
MaxTasks == 2
\* Nested NotifyForkchoiceUpdate frames told apart; deeper nesting is kept at
\* this depth.
MaxDepth == 3
\* Branches of the committed store alive at once.
MaxBranches == 1
\* Responses kept in the record of responses made.
MaxResponses == 2

\* ------------------------------------------------------------------ errors
\* An error value is a record: its identity (what errors.Is matches on) and
\* the fatality mark of its outermost DetailedError wrapper.
Nil == [tag |-> "nil", fatal |-> FALSE]

MkErr(tag, fatal) == [tag |-> tag, fatal |-> fatal]

ErrNilBlk == MkErr("ErrNilBlk", FALSE)
ErrDecodeBlock == MkErr("ErrDecodeBlock", FALSE)
ErrDecodeSidecars == MkErr("ErrDecodeSidecars", FALSE)
ErrVerifySidecars == MkErr("ErrVerifySidecars", FALSE)
ErrParentRootMismatch == MkErr("ErrParentRootMismatch", FALSE)
ErrStateRootMismatch == MkErr("ErrStateRootMismatch", FALSE)
ErrStateRead == MkErr("ErrStateRead", TRUE)
ErrTransport == MkErr("ErrTransport", TRUE)
ErrInvalidVersionedHash == MkErr("ErrInvalidVersionedHash", FALSE)
ErrAcceptedPayloadStatus == MkErr("ErrAcceptedPayloadStatus", FALSE)
ErrSyncingPayloadStatus == MkErr("ErrSyncingPayloadStatus", FALSE)
ErrInvalidPayloadStatus == MkErr("ErrInvalidPayloadStatus", FALSE)
ErrInvalidBlockHashPayloadStatus == MkErr("ErrInvalidBlockHashPayloadStatus", FALSE)
ErrBadBlockProduced == MkErr("ErrBadBlockProduced", FALSE)

\* errors.Is(err, target): identity up the wrapping chain.
ErrorsIs(err, target) == err.tag = target.tag

\* errors.WrapNonFatal(err): a DetailedError around err marked not fatal.
WrapNonFatal(err) == [tag |-> err.tag, fatal |-> FALSE]

\* errors.IsFatal(err): nil is not fatal, otherwise the outermost mark.
IsFatal(err) == err # Nil /\ err.fatal

\* ----------------------------------------------------------------- StateDB
\* The key-value contexts behind the handles: ctxs maps each live context to
\* its parent and its buffer of written keys. The committed store is its own
\* parent and holds every key; a cache context buffers writes over its parent.
Keys == {"slot", "latestBlockHeader", "latestExecutionPayloadHeader"}

MaxCtx == MaxTasks + 2
CtxIds == 1..MaxCtx
CommittedCtx == CHOOSE c \in CtxIds : \A d \in CtxIds : c <= d

\* The nil write callback of a handle that Copy did not produce.
NilWrite == {}

\* A buffer slot: whether the key was written in this context, and the value.
Clean == [set |-> FALSE, val |-> 0]

Dirty(v) == [set |-> TRUE, val |-> v]

RECURSIVE Read(_, _, _)
\* A read through context c: the buffered value, else the parent's.
Read(cs, c, k) ==
    IF cs[c].kv[k].set \/ cs[c].parent = c
    THEN cs[c].kv[k].val
    ELSE Read(cs, cs[c].parent, k)

\* A write through context c lands in c's own buffer.
WriteKey(cs, c, k, v) == [cs EXCEPT ![c].kv[k] = Dirty(v)]

\* sdk.Context.CacheContext(): a fresh branch of context c, nothing buffered.
FreshCtx(cs) ==
    CHOOSE n \in CtxIds \ DOMAIN cs : \A d \in CtxIds \ DOMAIN cs : n <= d

CacheContext(cs, c) ==
    LET n == FreshCtx(cs)
    IN  [ctxs |-> [d \in (DOMAIN cs) \cup {n} |->
                      IF d = n THEN [parent |-> c, kv |-> [k \in Keys |-> Clean]]
                      ELSE cs[d]],
         cctx |-> n]

\* The write callback CacheContext returns: flush the buffer into the parent.
FlushCtx(cs, c) ==
    LET p == cs[c].parent
    IN  [cs EXCEPT ![p].kv = [k \in Keys |->
                                 IF cs[c].kv[k].set THEN cs[c].kv[k]
                                 ELSE cs[p].kv[k]]]

WithContextDroppingWrite(s, ctx) == [ctx |-> ctx, write |-> NilWrite]

\* StateDB.WithContext: a copy of the handle on another context.
WithContext(s, ctx) == [s EXCEPT !.ctx = ctx]

\* A copy that shares the receiver's context instead of branching it.
CopyAliased(cs, s) == [ctxs |-> cs, st |-> s]

\* StateDB.Copy: a handle on a fresh cache context, with its write callback.
Copy(cs, s) ==
    LET cc == CacheContext(cs, s.ctx)
    IN  [ctxs |-> cc.ctxs,
         st |-> [WithContext(s, cc.cctx) EXCEPT !.write = {cc.cctx}]]

RECURSIVE FlushAll(_, _)
FlushAll(cs, w) ==
    IF w = {} THEN cs
    ELSE LET c == CHOOSE x \in w : TRUE IN FlushAll(FlushCtx(cs, c), w \ {c})

SaveWithoutWrite(cs, s) == cs

\* StateDB.Save: run the write callback when there is one.
Save(cs, s) == IF s.write # NilWrite THEN FlushAll(cs, s.write) ELSE cs

\* BeaconState.HashTreeRoot: a function of the fields read through the handle.
HashTreeRoot(cs, s) ==
    <<Read(cs, s.ctx, "slot"), Read(cs, s.ctx, "latestBlockHeader"),
      Read(cs, s.ctx, "latestExecutionPayloadHeader")>>

\* The committed store at construction: the genesis state.
GenesisKV ==
    [slot |-> Dirty(0), latestBlockHeader |-> Dirty(7),
     latestExecutionPayloadHeader |-> Dirty(0)]

GenesisCtxs ==
    [c \in {CommittedCtx} |-> [parent |-> CommittedCtx, kv |-> GenesisKV]]

\* storageBackend.StateFromContext(ctx): the handle on the committed state.
StateFromContext == [ctx |-> CommittedCtx, write |-> NilWrite]

\* --------------------------------------------------- execution engine adapter
\* The replies the execution client can give to NewPayload.
NewPayloadReplies ==
    {Nil, ErrAcceptedPayloadStatus, ErrSyncingPayloadStatus,
     ErrInvalidPayloadStatus, ErrInvalidBlockHashPayloadStatus, ErrTransport}

\* The first case of both status switches: ACCEPTED or SYNCING.
IsOptimisticStatus(err) ==
    ErrorsIs(err, ErrAcceptedPayloadStatus)
    \/ ErrorsIs(err, ErrSyncingPayloadStatus)

IsInvalidStatusAnyError(err) == err # Nil /\ ~IsOptimisticStatus(err)

\* The second case of both status switches: INVALID or INVALID_BLOCK_HASH.
IsInvalidStatus(err) ==
    ErrorsIs(err, ErrInvalidPayloadStatus)
    \/ ErrorsIs(err, ErrInvalidBlockHashPayloadStatus)

NewPayloadVerdictIgnoringOptimistic(req, err) ==
    IF IsInvalidStatus(err) THEN ErrBadBlockProduced ELSE err

NewPayloadVerdictOptimisticInvalid(req, err) ==
    IF (IsOptimisticStatus(err) \/ IsInvalidStatus(err)) /\ req.Optimistic
    THEN Nil
    ELSE IF IsInvalidStatus(err) THEN ErrBadBlockProduced ELSE err

\* The status switch of VerifyAndNotifyNewPayload on NewPayload's error.
NewPayloadVerdict(req, err) ==
    IF IsOptimisticStatus(err)
    THEN IF req.Optimistic THEN Nil ELSE err
    ELSE IF IsInvalidStatus(err)
    THEN ErrBadBlockProduced
    ELSE err

VerifyAndNotifyNewPayloadHashCheckLast(req, el) ==
    IF req.SkipIfExists
    THEN [err |-> Nil, rpcs |-> <<"HeaderByHash">>]
    ELSE [err |-> IF req.hashesErr # Nil THEN req.hashesErr
                  ELSE NewPayloadVerdict(req, el.newPayload),
          rpcs |-> <<"NewPayload">>]

\* Engine.VerifyAndNotifyNewPayload. req carries the outcome of the local
\* hash check, SkipIfExists and Optimistic; el carries the execution client's
\* replies. The result is the returned error and the RPCs issued, in order.
VerifyAndNotifyNewPayload(req, el) ==
    IF req.hashesErr # Nil
    THEN [err |-> req.hashesErr, rpcs |-> <<>>]
    ELSE IF req.SkipIfExists
    THEN [err |-> Nil, rpcs |-> <<"HeaderByHash">>]
    ELSE [err |-> NewPayloadVerdict(req, el.newPayload),
          rpcs |-> <<"NewPayload">>]

\* A nil *PayloadID and a nil *ExecutionHash.
NilID == "nilID"
NilHash == "nilHash"

\* What one ForkchoiceUpdated RPC carries: req.State and whether
\* req.PayloadAttributes is non-nil.
ForkchoiceUpdatedArgs(req) ==
    [rpc |-> "ForkchoiceUpdated", State |-> req.State,
     PayloadAttributes |-> req.PayloadAttributes]

RetryRequestKeepingHead(req) == req

RetryRequestDroppingAttributes(req) ==
    [State |-> [req.State EXCEPT !.HeadBlockHash = req.State.SafeBlockHash],
     PayloadAttributes |-> FALSE]

\* req.State.HeadBlockHash = req.State.SafeBlockHash
RetryRequest(req) ==
    [req EXCEPT !.State.HeadBlockHash = req.State.SafeBlockHash]

ForkchoiceUpdatedResultPassingHash(reply) ==
    IF reply.err # Nil /\ ~IsOptimisticStatus(reply.err)
    THEN [payloadID |-> NilID, latestValidHash |-> NilHash, err |-> reply.err]
    ELSE [payloadID |-> reply.payloadID,
          latestValidHash |-> reply.latestValidHash, err |-> Nil]

\* What the NotifyForkchoiceUpdate frame returns when the reply to its RPC
\* is not an invalid status: the optimistic case, the undefined-error case and
\* the final return.
ForkchoiceUpdatedResult(reply) ==
    IF IsOptimisticStatus(reply.err)
    THEN [payloadID |-> reply.payloadID, latestValidHash |-> NilHash,
          err |-> Nil]
    ELSE IF reply.err # Nil
    THEN [payloadID |-> NilID, latestValidHash |-> NilHash, err |-> reply.err]
    ELSE [payloadID |-> reply.payloadID,
          latestValidHash |-> reply.latestValidHash, err |-> Nil]

AfterRetryPassingResult(inner) == inner

\* What the frame of the invalid-status case returns once its recursive call
\* has returned inner.
AfterRetry(inner) ==
    IF inner.err # Nil
    THEN [payloadID |-> NilID, latestValidHash |-> NilHash, err |-> inner.err]
    ELSE [payloadID |-> inner.payloadID,
          latestValidHash |-> inner.latestValidHash,
          err |-> ErrBadBlockProduced]

\* The return through depth frames of the invalid-status case.
RECURSIVE Unwind(_, _)
Unwind(res, depth) ==
    IF depth = 0 THEN res ELSE Unwind(AfterRetry(res), depth - 1)

\* ------------------------------------------------- state transition processor
\* A beacon block: its slot, the parent root it names, its own header root,
\* the state root it advertises and the outcome of its payload's hash check.
NilBlk ==
    [isNil |-> TRUE, slot |-> 0, parentRoot |-> 0, hdr |-> 0,
     stateRoot |-> <<0, 0, 0>>, hashesErr |-> Nil]

\* The block the genesis state accepts at slot 1.
GoodBlk ==
    [isNil |-> FALSE, slot |-> 1, parentRoot |-> 7, hdr |-> 8,
     stateRoot |-> <<1, 8, 1>>, hashesErr |-> Nil]

\* The good block, and the same with its parent root zeroed, with a byte of
\* its state root flipped, and with a payload whose hashes do not check out.
Blocks ==
    { GoodBlk,
      [GoodBlk EXCEPT !.parentRoot = 0],
      [GoodBlk EXCEPT !.stateRoot = <<1, 8, 0>>],
      [GoodBlk EXCEPT !.hashesErr = ErrInvalidVersionedHash] }

\* StateProcessor.Transition(ctx, st, blk): slot processing, header checks,
\* the execution payload through the engine adapter, and the comparison of
\* the resulting root with the block's. Every write goes through st.
Transition(tctx, cs, st, blk, el) ==
    LET c == st.ctx
        s1 == WriteKey(cs, c, "slot", blk.slot)
    IN  IF blk.parentRoot # Read(s1, c, "latestBlockHeader")
        THEN [err |-> ErrParentRootMismatch, ctxs |-> s1, rpcs |-> <<>>]
        ELSE
        LET s2 == WriteKey(s1, c, "latestBlockHeader", blk.hdr)
            np == IF tctx.SkipPayloadVerification
                  THEN [err |-> Nil, rpcs |-> <<>>]
                  ELSE VerifyAndNotifyNewPayload(
                           [hashesErr |-> blk.hashesErr,
                            SkipIfExists |-> FALSE,
                            Optimistic |-> tctx.OptimisticEngine], el)
        IN  IF np.err # Nil
            THEN [err |-> np.err, ctxs |-> s2, rpcs |-> np.rpcs]
            ELSE
            LET s3 == WriteKey(s2, c, "latestExecutionPayloadHeader", blk.slot)
            IN  IF ~tctx.SkipValidateResult /\ HashTreeRoot(s3, st) # blk.stateRoot
                THEN [err |-> ErrStateRootMismatch, ctxs |-> s3, rpcs |-> np.rpcs]
                ELSE [err |-> Nil, ctxs |-> s3, rpcs |-> np.rpcs]

\* ---------------------------------------------------------- blockchain service
\* shouldBuildOptimisticPayloads without the local builder's own switch.
shouldBuildOptimisticPayloadsFlagOnly(svc) == svc.optimisticPayloadBuilds

\* Service.shouldBuildOptimisticPayloads
shouldBuildOptimisticPayloads(svc) ==
    svc.optimisticPayloadBuilds /\ svc.localBuilderEnabled

\* A once that forgets it has run.
OnceDoForgetful(done) == [run |-> ~done, done |-> done]

\* s.forceStartupSyncOnce.Do(f): whether f runs, and the once afterwards.
OnceDo(done) == [run |-> ~done, done |-> TRUE]

\* A swallow test that also takes the syncing status for the accepted one.
IsSwallowedStatusAlsoSyncing(err) ==
    ErrorsIs(err, ErrAcceptedPayloadStatus) \/ ErrorsIs(err, ErrSyncingPayloadStatus)

\* verifyStateRoot's test for the one transition error it swallows.
IsSwallowedStatus(err) == ErrorsIs(err, ErrAcceptedPayloadStatus)

\* The transition context verifyStateRoot builds: the engine not optimistic,
\* every verification on, the proposer address and consensus time it is given.
TransitionContextOptimistic(consensusTime, proposerAddress) ==
    [OptimisticEngine |-> TRUE,
     SkipPayloadVerification |-> FALSE,
     SkipValidateResult |-> FALSE,
     SkipValidateRandao |-> FALSE,
     ProposerAddress |-> proposerAddress,
     ConsensusTime |-> consensusTime]

\* The transition.Context verifyStateRoot builds.
TransitionContext(consensusTime, proposerAddress) ==
    [OptimisticEngine |-> FALSE,
     SkipPayloadVerification |-> FALSE,
     SkipValidateResult |-> FALSE,
     SkipValidateRandao |-> FALSE,
     ProposerAddress |-> proposerAddress,
     ConsensusTime |-> consensusTime]

\* verifyStateRoot after the transition returned t: the accepted status is
\* swallowed, any other error is returned as it is.
StateRootVerdict(t, tctx) ==
    [err |-> IF IsSwallowedStatus(t.err) THEN Nil ELSE t.err,
     terr |-> t.err, ctxs |-> t.ctxs, rpcs |-> t.rpcs, tctx |-> tctx]

\* Service.verifyStateRoot: run the transition on st and judge its error.
verifyStateRoot(cs, st, blk, consensusTime, proposerAddress, el) ==
    StateRootVerdict(
        Transition(TransitionContext(consensusTime, proposerAddress),
                   cs, st, blk, el),
        TransitionContext(consensusTime, proposerAddress))

\* BeaconState.GetLatestExecutionPayloadHeader through handle st; kvErr is
\* the failure of the key-value backend, if any.
GetLatestExecutionPayloadHeader(cs, st, kvErr) ==
    IF kvErr # Nil
    THEN [lph |-> 0, err |-> kvErr]
    ELSE [lph |-> Read(cs, st.ctx, "latestExecutionPayloadHeader"), err |-> Nil]

\* What a VerifyIncomingBlock call reports when it never reached the
\* transition: no transition context, no transition error, no post-state.
NoTctx ==
    [OptimisticEngine |-> TRUE, SkipPayloadVerification |-> TRUE,
     SkipValidateResult |-> TRUE, SkipValidateRandao |-> TRUE,
     ProposerAddress |-> 0, ConsensusTime |-> 0]

BuildTaskOnCommitted(kind, st, consensusTime, lph) ==
    [kind |-> kind, st |-> StateFromContext, consensusTime |-> consensusTime,
     lphTimestamp |-> lph]

\* The background task VerifyIncomingBlock launches with `go`.
BuildTask(kind, st, consensusTime, lph) ==
    [kind |-> kind, st |-> st, consensusTime |-> consensusTime,
     lphTimestamp |-> lph]

LaunchAfterReadIgnoringError(out, trace, r, kind, st, consensusTime) ==
    out @@ [err |-> r.err, trace |-> trace,
            launched |-> <<BuildTask(kind, st, consensusTime, r.lph)>>]

\* VerifyIncomingBlock from the header read of either branch on: r is the
\* read's result; a failed read is returned, else the task is launched and
\* the error variable, which the read has overwritten, is returned.
LaunchAfterRead(out, trace, r, kind, st, consensusTime) ==
    IF r.err # Nil
    THEN out @@ [err |-> r.err, trace |-> trace, launched |-> <<>>]
    ELSE out @@ [err |-> r.err,
                 trace |-> Append(trace,
                     IF kind = "rebuild"
                     THEN "go handleRebuildPayloadForRejectedBlock"
                     ELSE "go handleOptimisticPayloadBuild"),
                 launched |-> <<BuildTask(kind, st, consensusTime, r.lph)>>]

\* VerifyIncomingBlock after verifyStateRoot returned v on postState.
AfterVerifyStateRoot(svc, preState, postState, out, trace, v, consensusTime, env) ==
    IF v.err # Nil
    THEN
        IF shouldBuildOptimisticPayloads(svc)
        THEN LaunchAfterRead(
                 out,
                 trace \o <<"Error: Rejecting incoming beacon block",
                            "GetLatestExecutionPayloadHeader">>,
                 GetLatestExecutionPayloadHeader(v.ctxs, preState, env.kvErr),
                 "rebuild", preState, consensusTime)
        ELSE out @@ [err |-> v.err,
                     trace |-> Append(trace, "Error: Rejecting incoming beacon block"),
                     launched |-> <<>>]
    ELSE
        IF shouldBuildOptimisticPayloads(svc)
        THEN LaunchAfterRead(
                 out,
                 trace \o <<"Info: State root verification succeeded",
                            "GetLatestExecutionPayloadHeader">>,
                 GetLatestExecutionPayloadHeader(v.ctxs, postState, env.kvErr),
                 "optimistic", postState, consensusTime)
        ELSE out @@ [err |-> Nil,
                     trace |-> Append(trace, "Info: State root verification succeeded"),
                     launched |-> <<>>]

IsNilNever(beaconBlk) == FALSE

\* beaconBlk.IsNil()
IsNil(beaconBlk) == beaconBlk.isNil

\* What VerifyIncomingBlock reports of the transition it ran.
VerifyReport(once, v, postState) ==
    [ctxs |-> v.ctxs, once |-> once.done, ran |-> TRUE, terr |-> v.terr,
     vsrErr |-> v.err, tctx |-> v.tctx, rpcs |-> v.rpcs,
     postRoot |-> HashTreeRoot(v.ctxs, postState)]

\* VerifyIncomingBlock from the nil check on: once is the outcome of the
\* startup once, trace the calls made so far.
VerifyNonNil(svc, cs, preState, once, trace, beaconBlk, consensusTime, proposerAddress, env) ==
    IF IsNil(beaconBlk)
    THEN [err |-> WrapNonFatal(ErrNilBlk),
          trace |-> Append(trace, "Warn: Aborting block verification"),
          ctxs |-> cs, once |-> once.done, launched |-> <<>>,
          ran |-> FALSE, terr |-> Nil, vsrErr |-> Nil, tctx |-> NoTctx,
          rpcs |-> <<>>, postRoot |-> HashTreeRoot(cs, preState)]
    ELSE
        LET cp == Copy(cs, preState)
            v == verifyStateRoot(cp.ctxs, cp.st, beaconBlk, consensusTime,
                                 proposerAddress, env.el)
        IN  AfterVerifyStateRoot(
                svc, preState, cp.st, VerifyReport(once, v, cp.st),
                trace \o <<"Info: Received incoming beacon block", "Copy",
                           "Transition">>,
                v, consensusTime, env)

\* Service.VerifyIncomingBlock. The result holds the returned error, the
\* calls and log entries made, in order, the contexts and the once
\* afterwards, and the background tasks launched.
VerifyIncomingBlock(svc, cs, beaconBlk, consensusTime, proposerAddress, env) ==
    LET once == OnceDo(svc.forceStartupSyncOnce)
    IN  VerifyNonNil(
            svc, cs, StateFromContext, once,
            <<"StateFromContext">>
                \o (IF once.run THEN <<"forceStartupHead">> ELSE <<>>),
            beaconBlk, consensusTime, proposerAddress, env)

\* encoding.UnmarshalBeaconBlockFromABCIRequest(req, BeaconBlockTxIndex, fork)
UnmarshalBeaconBlockFromABCIRequest(req) ==
    IF req.blockTx.ok
    THEN [blk |-> req.blockTx.blk, err |-> Nil]
    ELSE [blk |-> NilBlk, err |-> ErrDecodeBlock]

\* encoding.UnmarshalBlobSidecarsFromABCIRequest(req, BlobSidecarsTxIndex)
UnmarshalBlobSidecarsFromABCIRequest(req) ==
    IF req.sidecarsTx.ok
    THEN [sidecars |-> [isNil |-> req.sidecarsTx.isNil,
                        items |-> req.sidecarsTx.items],
          err |-> Nil]
    ELSE [sidecars |-> [isNil |-> TRUE, items |-> <<>>],
          err |-> ErrDecodeSidecars]

\* BlobProcessor.VerifySidecars: every sidecar's commitment must check out.
VerifySidecars(sidecars) ==
    IF \E i \in 1..Len(sidecars.items) : sidecars.items[i] # "ok"
    THEN ErrVerifySidecars
    ELSE Nil

\* A sidecar guard that lets an empty, non-nil set through to the processor.
HasSidecarsNilCheckOnly(sidecars) == ~sidecars.isNil

\* ProcessProposal's guard of the blob step: !sidecars.IsNil() && Len() > 0.
HasSidecars(sidecars) == ~sidecars.isNil /\ Len(sidecars.items) > 0

\* A blob step whose failure does not end the call.
SidecarsRejectedIgnored(err) == FALSE

\* ProcessProposal's test after VerifySidecars: a failure ends the call.
SidecarsRejected(err) == err # Nil

createProcessProposalResponseRejecting(err) ==
    IF err = Nil
    THEN [resp |-> [Status |-> "ACCEPT"], err |-> Nil]
    ELSE [resp |-> [Status |-> "REJECT"],
          err |-> IF IsFatal(err) THEN err ELSE Nil]

\* createProcessProposalResponse(err): the response and the RPC error.
createProcessProposalResponse(err) ==
    IF ~IsFatal(err)
    THEN [resp |-> [Status |-> "ACCEPT"], err |-> Nil]
    ELSE [resp |-> [Status |-> "REJECT"], err |-> err]

\* What a ProcessProposal call reports of VerifyIncomingBlock when it ended
\* before calling it.
NoVerify(svc, cs) ==
    [ctxs |-> cs, once |-> svc.forceStartupSyncOnce, launched |-> <<>>,
     ran |-> FALSE, terr |-> Nil, vsrErr |-> Nil, tctx |-> NoTctx,
     rpcs |-> <<>>, postRoot |-> HashTreeRoot(cs, StateFromContext),
     vibErr |-> Nil,
     vibCalled |-> FALSE]

\* What ProcessProposal reports of the VerifyIncomingBlock call it made.
Verified(v) ==
    [ctxs |-> v.ctxs, once |-> v.once, launched |-> v.launched, ran |-> v.ran,
     terr |-> v.terr, vsrErr |-> v.vsrErr, tctx |-> v.tctx, rpcs |-> v.rpcs,
     postRoot |-> v.postRoot, vibErr |-> v.err, vibCalled |-> TRUE]

\* A return of ProcessProposal: a failed step's error is wrapped non-fatal
\* and handed to createProcessProposalResponse, a success hands it nil.
Return(step, stepErr, trace, vib) ==
    LET r == createProcessProposalResponse(
                 IF stepErr = Nil THEN Nil ELSE WrapNonFatal(stepErr))
    IN  vib @@ [resp |-> r.resp, err |-> r.err, failedStep |-> step,
                stepErr |-> stepErr, trace |-> trace]

\* ProcessProposal after VerifyIncomingBlock returned v.
AfterVerifyIncomingBlock(trace, v) ==
    IF v.err # Nil
    THEN Return("verifyIncomingBlock", v.err,
                trace \o <<"VerifyIncomingBlock">> \o v.trace
                      \o <<"Error: failed to verify incoming block">>,
                Verified(v))
    ELSE Return("none", Nil, trace \o <<"VerifyIncomingBlock">> \o v.trace,
                Verified(v))

\* A call that a panic aborted: nothing is logged after it, and no response
\* and no error reach the host.
Panicked(trace, vib) ==
    vib @@ [resp |-> [Status |-> "NONE"], err |-> Nil, failedStep |-> "panic",
            stepErr |-> Nil, trace |-> trace]

\* What blk.GetHeader() can do in the blob step. On a block it yields the
\* header. Its body and the blob processor's are outside the source, which
\* does not settle what they do on a nil block, so every outcome is allowed:
\* the dereference panics, or a nil header reaches the blob processor, which
\* rejects the sidecars for it or verifies them without it.
GetHeaderOutcomes(blk) ==
    IF blk.isNil
    THEN {"panic", "nilHeaderRejected", "nilHeaderVerified"}
    ELSE {"header"}

\* consensusSidecars.New(sidecars, blk.GetHeader()) handed to VerifySidecars.
VerifySidecarsWithHeader(sidecars, getHeader) ==
    IF getHeader = "nilHeaderRejected"
    THEN ErrVerifySidecars
    ELSE VerifySidecars(sidecars)

\* ProcessProposal after the blob processor returned err.
AfterVerifySidecars(svc, cs, req, env, blk, err, trace) ==
    IF SidecarsRejected(err)
    THEN Return("verifySidecars", err,
                trace \o <<"VerifySidecars",
                           "Error: rejecting incoming blob sidecars">>,
                NoVerify(svc, cs))
    ELSE AfterVerifyIncomingBlock(
             trace \o <<"VerifySidecars",
                        "Info: Blob sidecars verification succeeded">>,
             VerifyIncomingBlock(svc, cs, blk, req.time,
                                 req.proposerAddress, env))

\* ProcessProposal from the blob step on, with the decoded block and sidecars.
\* GetHeader is evaluated as an argument of consensusSidecars.New, before the
\* Info entry is logged; a panic in it leaves no entry.
ProcessDecoded(svc, cs, req, env, blk, sidecars, trace) ==
    IF HasSidecars(sidecars)
    THEN
        IF env.getHeader = "panic"
        THEN Panicked(trace \o <<"GetHeader", "panic">>, NoVerify(svc, cs))
        ELSE AfterVerifySidecars(
                 svc, cs, req, env, blk,
                 VerifySidecarsWithHeader(sidecars, env.getHeader),
                 trace \o <<"GetHeader",
                            "Info: Received incoming blob sidecars">>)
    ELSE AfterVerifyIncomingBlock(
             trace,
             VerifyIncomingBlock(svc, cs, blk, req.time,
                                 req.proposerAddress, env))

\* ProcessProposal from the sidecar decoding on, with the decoded block.
ProcessWithBlock(svc, cs, req, env, blk, d2, trace) ==
    IF d2.err # Nil
    THEN Return("decodeSidecars", d2.err, trace, NoVerify(svc, cs))
    ELSE ProcessDecoded(svc, cs, req, env, blk, d2.sidecars, trace)

\* Service.ProcessProposal. The result holds the response and RPC error
\* returned to the host, the step that failed and its error as the step
\* returned it, the calls and log entries made, in order, and what
\* VerifyIncomingBlock did.
ProcessProposal(svc, cs, req, env) ==
    LET d1 == UnmarshalBeaconBlockFromABCIRequest(req)
    IN  IF d1.err # Nil
        THEN Return("decodeBlock", d1.err, <<"UnmarshalBeaconBlock">>,
                    NoVerify(svc, cs))
        ELSE ProcessWithBlock(
                 svc, cs, req, env, d1.blk,
                 UnmarshalBlobSidecarsFromABCIRequest(req),
                 <<"UnmarshalBeaconBlock", "UnmarshalBlobSidecars">>)

\* ------------------------------------------------------------------ the inputs
\* The sidecar sets a proposal can carry: up to MaxSidecars sidecars, each
\* with a commitment that checks out or one that does not.
SidecarItems ==
    UNION { [1..n -> {"ok", "badkzg"}] : n \in 0..MaxSidecars }

SidecarTxs ==
    { [ok |-> FALSE, isNil |-> TRUE, items |-> <<>>],
      [ok |-> TRUE, isNil |-> TRUE, items |-> <<>>] }
    \cup { [ok |-> TRUE, isNil |-> FALSE, items |-> it] : it \in SidecarItems }

BlockTxs ==
    { [ok |-> FALSE, blk |-> NilBlk] }
    \cup { [ok |-> TRUE, blk |-> b] : b \in Blocks \cup {NilBlk} }

\* The requests the host can deliver: any block transaction with any sidecar
\* transaction.
Requests ==
    [blockTx : BlockTxs, sidecarsTx : SidecarTxs,
     proposerAddress : {1, 2}, time : {5}]

\* What the key-value backend answers to the read of the latest execution
\* payload header.
HeaderReadReplies == {Nil, ErrStateRead}

NoRequest ==
    [blockTx |-> [ok |-> FALSE, blk |-> NilBlk],
     sidecarsTx |-> [ok |-> FALSE, isNil |-> TRUE, items |-> <<>>],
     proposerAddress |-> 0, time |-> 0]

\* Whether, how often and where an entry occurs in a call's trace.
Occurs(trace, ev) == \E i \in 1..Len(trace) : trace[i] = ev

Count(trace, ev) == Cardinality({i \in 1..Len(trace) : trace[i] = ev})

Before(trace, a, b) ==
    \A i, j \in 1..Len(trace) : trace[i] = a /\ trace[j] = b => i < j

\* ------------------------------------------------------------------- the state
VARIABLES
    ctxs,                     \* the live key-value contexts
    optimisticPayloadBuilds,  \* Service.optimisticPayloadBuilds
    localBuilderEnabled,      \* Service.localBuilder.Enabled()
    forceStartupSyncOnce,     \* whether Service.forceStartupSyncOnce has run
    tasks,                    \* the background tasks launched and not yet over
    verifiedBefore,           \* whether VerifyIncomingBlock was ever called
    startupHeadRuns,          \* how many times forceStartupHead has run
    last,                     \* the ProcessProposal call the host is being answered
    engineCalls,              \* each thread's call into the engine adapter
    handles,                  \* the StateDB handles the program holds
    branches,                 \* what is known of each branch Copy has made
    dbOp,                     \* the last StateDB operation and what it saw
    responses                 \* the responses createProcessProposalResponse made

vars == <<ctxs, optimisticPayloadBuilds, localBuilderEnabled,
          forceStartupSyncOnce, tasks, verifiedBefore, startupHeadRuns, last,
          engineCalls, handles, branches, dbOp, responses>>

\* The variables of the blockchain service and of its host.
serviceVars == <<ctxs, optimisticPayloadBuilds, localBuilderEnabled,
                 forceStartupSyncOnce, tasks, verifiedBefore, startupHeadRuns,
                 last>>

\* The variables of the StateDB handles and of the response maker.
dbVars == <<handles, branches, dbOp>>

Service ==
    [optimisticPayloadBuilds |-> optimisticPayloadBuilds,
     localBuilderEnabled |-> localBuilderEnabled,
     forceStartupSyncOnce |-> forceStartupSyncOnce]

\* The contexts some handle still reaches: the committed store and the
\* contexts of the handles held by pending tasks.
Live(cs, ts) ==
    [c \in {d \in DOMAIN cs :
               d = CommittedCtx \/ \E i \in 1..Len(ts) : ts[i].st.ctx = d}
        |-> cs[c]]

\* ------------------------------------------------ engine adapter, per thread
\* The threads that call the adapter: the consensus thread and a background
\* build task.
Threads == {"consensus", "buildTask"}

ForkchoiceStates ==
    [HeadBlockHash : {"h2"}, SafeBlockHash : {"h1"},
     FinalizedBlockHash : {"h0"}]

ForkchoiceUpdateRequests ==
    [State : ForkchoiceStates, PayloadAttributes : BOOLEAN]

NewPayloadRequests ==
    [hashesErr : {Nil, ErrInvalidVersionedHash}, SkipIfExists : BOOLEAN,
     Optimistic : BOOLEAN]

\* What the execution client may answer to ForkchoiceUpdated.
ForkchoiceUpdatedReplies ==
    [payloadID : {NilID, "p1"}, latestValidHash : {NilHash, "v1"},
     err : NewPayloadReplies]

\* What the execution client may answer to HeaderByHash.
HeaderByHashReplies == [found : BOOLEAN, err : {Nil, ErrTransport}]

NoForkchoiceRequest ==
    [State |-> [HeadBlockHash |-> NilHash, SafeBlockHash |-> NilHash,
                FinalizedBlockHash |-> NilHash],
     PayloadAttributes |-> FALSE]
NoNewPayloadRequest ==
    [hashesErr |-> Nil, SkipIfExists |-> FALSE, Optimistic |-> FALSE]
NoReply ==
    [payloadID |-> NilID, latestValidHash |-> NilHash,
     err |-> MkErr("no reply", FALSE)]
NoHeaderReply == [found |-> FALSE, err |-> MkErr("no reply", FALSE)]
NoResult == [payloadID |-> NilID, latestValidHash |-> NilHash, err |-> Nil]

\* An RPC of VerifyAndNotifyNewPayload, in the shape of the RPC log.
PayloadRpc(name) ==
    [rpc |-> name, State |-> NoForkchoiceRequest.State,
     PayloadAttributes |-> FALSE]

RECURSIVE PayloadRpcs(_)
PayloadRpcs(names) ==
    IF names = <<>> THEN <<>>
    ELSE <<PayloadRpc(Head(names))>> \o PayloadRpcs(Tail(names))

\* A thread outside the adapter.
Idle ==
    [pc |-> "idle", kind |-> "none", fcu |-> NoForkchoiceRequest,
     np |-> NoNewPayloadRequest, sent |-> <<>>, last |-> NoReply,
     hdr |-> NoHeaderReply, ret |-> NoResult]

\* -------------------------------------------------- StateDB handles, in use
\* The handles held at once: one on the committed state, one that Copy
\* returned for each branch, and one derived with WithContext.
MaxHandles == MaxBranches + 2

\* Context c is context b or a branch, at any depth, of b.
RECURSIVE IsUnder(_, _, _)
IsUnder(cs, c, b) ==
    \/ c = b
    \/ cs[c].parent # c /\ IsUnder(cs, cs[c].parent, b)

\* What the receiver of WithContext is afterwards: `cpy := *s` copies it.
WithContextReceiver(s, ctx) == s

\* The value a setter writes to the slot: the one after genesis.
SlotValues == {1}

GenesisRoot == HashTreeRoot(GenesisCtxs, StateFromContext)

\* No branch made on this context yet.
NoBranch ==
    [made |-> FALSE, parent |-> CommittedCtx, snap |-> GenesisRoot,
     saved |-> FALSE, parentDirty |-> FALSE]

\* No StateDB operation made yet.
NoOp ==
    [op |-> "none", recv |-> StateFromContext, recvAfter |-> StateFromContext,
     result |-> StateFromContext, arg |-> CommittedCtx,
     rootBefore |-> GenesisRoot, changed |-> FALSE]

\* The context a handle's write callback flushes.
WriteCtx(s) == CHOOSE c \in s.write : TRUE

\* The error values a step can hand to createProcessProposalResponse.
ErrorTags ==
    {"ErrNilBlk", "ErrDecodeBlock", "ErrDecodeSidecars", "ErrVerifySidecars",
     "ErrParentRootMismatch", "ErrStateRootMismatch", "ErrStateRead",
     "ErrTransport", "ErrInvalidVersionedHash", "ErrAcceptedPayloadStatus",
     "ErrSyncingPayloadStatus", "ErrBadBlockProduced"}

Errors == {Nil} \cup { MkErr(tag, f) : tag \in ErrorTags, f \in BOOLEAN }

NoCall ==
    [pc |-> "idle", called |-> FALSE, req |-> NoRequest,
     env |-> [el |-> [newPayload |-> Nil], kvErr |-> Nil,
              getHeader |-> "header"],
     out |-> NoVerify([forceStartupSyncOnce |-> FALSE], GenesisCtxs)
             @@ [resp |-> [Status |-> "NONE"], err |-> Nil,
                 failedStep |-> "none", stepErr |-> Nil, trace |-> <<>>],
     firstVerify |-> FALSE,
     svc0 |-> [optimisticPayloadBuilds |-> FALSE,
               localBuilderEnabled |-> FALSE,
               forceStartupSyncOnce |-> FALSE],
     cs0 |-> GenesisCtxs]

Init ==
    /\ ctxs = GenesisCtxs
    /\ optimisticPayloadBuilds \in BOOLEAN
    /\ localBuilderEnabled \in BOOLEAN
    /\ forceStartupSyncOnce = FALSE
    /\ tasks = <<>>
    /\ verifiedBefore = FALSE
    /\ startupHeadRuns = 0
    /\ last = NoCall
    /\ engineCalls = [t \in Threads |-> Idle]
    /\ handles = {StateFromContext}
    /\ branches = [c \in CtxIds |-> NoBranch]
    /\ dbOp = NoOp
    /\ responses = <<>>

\* The call in progress as far as its next wait, whatever the execution
\* client and the backend answer later: the calls made, the RPCs issued and
\* the contexts written up to the NewPayload RPC do not depend on the answers.
UpToNewPayload(svc, cs, req, getHeader) ==
    ProcessProposal(svc, cs, req,
                    [el |-> [newPayload |-> ErrTransport], kvErr |-> Nil,
                     getHeader |-> getHeader])

\* The contexts of the store while the call in progress waits for NewPayload:
\* those of the pending tasks and the branch postState holds.
AtNewPayload(part, cs0, ts) ==
    [c \in {d \in DOMAIN part.ctxs :
               d \notin DOMAIN cs0 \/ d \in DOMAIN Live(part.ctxs, ts)}
        |-> part.ctxs[c]]

\* The consensus thread inside Engine.VerifyAndNotifyNewPayload, waiting for
\* the NewPayload RPC that Transition issued.
NewPayloadInFlight(tctx) ==
    [Idle EXCEPT !.pc = "NewPayload",
                 !.kind = "VerifyAndNotifyNewPayload",
                 !.np = [hashesErr |-> Nil, SkipIfExists |-> FALSE,
                         Optimistic |-> tctx.OptimisticEngine],
                 !.sent = PayloadRpcs(<<"NewPayload">>)]

\* The request forceStartupHead sends through the adapter.
StartupHeadRequest ==
    [State |-> CHOOSE st \in ForkchoiceStates : TRUE,
     PayloadAttributes |-> FALSE]

\* The consensus thread inside forceStartupHead, waiting for the adapter.
StartupHeadInFlight ==
    [Idle EXCEPT !.pc = "ForkchoiceUpdated",
                 !.kind = "NotifyForkchoiceUpdate",
                 !.fcu = StartupHeadRequest,
                 !.sent = <<ForkchoiceUpdatedArgs(StartupHeadRequest)>>]

\* The call in progress waits: for the adapter inside forceStartupHead.
WaitsForStartupHead(req, getHeader) ==
    /\ forceStartupSyncOnce' = forceStartupSyncOnce
    /\ startupHeadRuns' = startupHeadRuns + 1
    /\ last' = [NoCall EXCEPT !.pc = "forceStartupHead", !.req = req,
                              !.env.getHeader = getHeader,
                              !.firstVerify = ~verifiedBefore,
                              !.svc0 = Service, !.cs0 = ctxs]
    /\ engineCalls' = [engineCalls EXCEPT !["consensus"] = StartupHeadInFlight]
    /\ verifiedBefore' = TRUE
    /\ UNCHANGED <<ctxs, tasks>>

\* The call in progress waits: for the NewPayload RPC inside Transition, the
\* branch of the store made and written as far as the block header.
WaitsForNewPayload(svc0, cs0, req, getHeader, part, first) ==
    /\ ctxs' = AtNewPayload(part, cs0, tasks)
    /\ last' = [NoCall EXCEPT !.pc = "NewPayload", !.req = req,
                              !.env.getHeader = getHeader,
                              !.firstVerify = first,
                              !.svc0 = svc0, !.cs0 = cs0]
    /\ engineCalls' = [engineCalls EXCEPT !["consensus"] =
                           NewPayloadInFlight(part.tctx)]
    /\ verifiedBefore' = TRUE
    /\ UNCHANGED <<tasks, startupHeadRuns>>

\* The call in progress runs to its return statement: the header is read,
\* the build goroutine is started and the response is ready. The goroutine
\* runs from here on, while the call is still returning.
RunsToReturn(svc0, cs0, req, env, first) ==
    LET out == ProcessProposal(svc0, cs0, req, env)
        ts == tasks \o out.launched
    IN  /\ ctxs' = Live(out.ctxs, ts)
        /\ tasks' = ts
        /\ verifiedBefore' = (verifiedBefore \/ out.vibCalled)
        /\ last' = [NoCall EXCEPT !.pc = "returning", !.req = req,
                                  !.env = env, !.out = out,
                                  !.firstVerify = out.vibCalled /\ first]
        /\ engineCalls' = [engineCalls EXCEPT !["consensus"] = Idle]
        /\ UNCHANGED startupHeadRuns

\* The host delivers a proposal: ProcessProposal decodes it, checks the
\* sidecars and enters VerifyIncomingBlock, as far as its first wait. The
\* pending build goroutines are capped at MaxTasks.
ProcessProposalBegins ==
    /\ last.pc = "idle"
    /\ Len(tasks) < MaxTasks
    /\ \E req \in Requests :
        \E getHeader \in GetHeaderOutcomes(
                             UnmarshalBeaconBlockFromABCIRequest(req).blk) :
            LET part == UpToNewPayload(Service, ctxs, req, getHeader)
            IN  IF Occurs(part.trace, "forceStartupHead")
                THEN WaitsForStartupHead(req, getHeader)
                ELSE
                    IF part.rpcs # <<>>
                    THEN /\ WaitsForNewPayload(Service, ctxs, req,
                                               getHeader, part,
                                               ~verifiedBefore)
                         /\ UNCHANGED forceStartupSyncOnce
                    ELSE \E kvErr \in HeaderReadReplies :
                            /\ RunsToReturn(Service, ctxs, req,
                                   [el |-> [newPayload |-> Nil],
                                    kvErr |-> kvErr, getHeader |-> getHeader],
                                   ~verifiedBefore)
                            /\ UNCHANGED forceStartupSyncOnce
    /\ UNCHANGED <<optimisticPayloadBuilds, localBuilderEnabled,
                   dbVars, responses>>

\* forceStartupHead returns; once.Do marks itself done and
\* VerifyIncomingBlock goes on as far as its next wait.
ForceStartupHeadReturns ==
    /\ last.pc = "forceStartupHead"
    /\ forceStartupSyncOnce' = OnceDo(forceStartupSyncOnce).done
    /\ LET part == UpToNewPayload(last.svc0, last.cs0, last.req,
                                  last.env.getHeader)
       IN  IF part.rpcs # <<>>
           THEN WaitsForNewPayload(last.svc0, last.cs0, last.req,
                                   last.env.getHeader, part,
                                   last.firstVerify)
           ELSE \E kvErr \in HeaderReadReplies :
                   RunsToReturn(last.svc0, last.cs0, last.req,
                       [el |-> [newPayload |-> Nil], kvErr |-> kvErr,
                        getHeader |-> last.env.getHeader],
                       last.firstVerify)
    /\ UNCHANGED <<optimisticPayloadBuilds, localBuilderEnabled,
                   dbVars, responses>>

\* The execution client answers the NewPayload RPC of the call in progress:
\* Transition ends and VerifyIncomingBlock takes its branch.
TransitionNewPayloadReturns ==
    /\ last.pc = "NewPayload"
    /\ \E reply \in NewPayloadReplies, kvErr \in HeaderReadReplies :
        RunsToReturn(last.svc0, last.cs0, last.req,
            [el |-> [newPayload |-> reply], kvErr |-> kvErr,
             getHeader |-> last.env.getHeader],
            last.firstVerify)
    /\ UNCHANGED <<optimisticPayloadBuilds, localBuilderEnabled,
                   forceStartupSyncOnce, dbVars, responses>>

\* ProcessProposal returns its response to the host.
ProcessProposalReturns ==
    /\ last.pc = "returning"
    /\ last' = [last EXCEPT !.pc = "returned", !.called = TRUE]
    /\ UNCHANGED <<ctxs, optimisticPayloadBuilds, localBuilderEnabled,
                   forceStartupSyncOnce, tasks, verifiedBefore, startupHeadRuns,
                   engineCalls, dbVars, responses>>

\* The host takes the response and is ready to deliver the next proposal.
HostTakesResponse ==
    /\ last.pc = "returned"
    /\ last' = NoCall
    /\ UNCHANGED <<ctxs, optimisticPayloadBuilds, localBuilderEnabled,
                   forceStartupSyncOnce, tasks, verifiedBefore, startupHeadRuns,
                   engineCalls, dbVars, responses>>

\* A background build task runs to its end; it only reads its state handle.
\* The branch of a call that waits for NewPayload stays reachable.
TaskDone ==
    /\ \E i \in 1..Len(tasks) :
        LET ts == SubSeq(tasks, 1, i - 1) \o SubSeq(tasks, i + 1, Len(tasks))
        IN  /\ tasks' = ts
            /\ ctxs' = IF last.pc = "NewPayload"
                       THEN AtNewPayload([ctxs |-> ctxs], last.cs0, ts)
                       ELSE Live(ctxs, ts)
    /\ UNCHANGED <<optimisticPayloadBuilds, localBuilderEnabled,
                   forceStartupSyncOnce, verifiedBefore, startupHeadRuns, last,
                   engineCalls, dbVars, responses>>

Next ==
    \/ ProcessProposalBegins
    \/ ForceStartupHeadReturns
    \/ TransitionNewPayloadReturns
    \/ ProcessProposalReturns
    \/ HostTakesResponse
    \/ TaskDone

Spec == Init /\ [][Next]_vars

\* A thread enters Engine.NotifyForkchoiceUpdate, which issues its
\* ForkchoiceUpdated RPC.
CallNotifyForkchoiceUpdate(t) ==
    /\ engineCalls[t].pc = "idle"
    /\ \E req \in ForkchoiceUpdateRequests :
        engineCalls' = [engineCalls EXCEPT ![t] =
            [Idle EXCEPT !.pc = "ForkchoiceUpdated",
                         !.kind = "NotifyForkchoiceUpdate",
                         !.fcu = req,
                         !.sent = <<ForkchoiceUpdatedArgs(req)>>]]
    /\ UNCHANGED <<serviceVars, dbVars, responses>>

\* The execution client answers a ForkchoiceUpdated RPC. On an invalid status
\* the frame moves the head to the safe block and calls itself, which issues
\* the next RPC; on any other answer the frames return, innermost first.
ForkchoiceUpdatedReturns(t) ==
    /\ engineCalls[t].pc = "ForkchoiceUpdated"
    /\ \E reply \in ForkchoiceUpdatedReplies :
        LET c == engineCalls[t]
            retry == RetryRequest(c.fcu)
        IN  engineCalls' = [engineCalls EXCEPT ![t] =
                IF IsInvalidStatus(reply.err)
                THEN [c EXCEPT !.fcu = retry,
                               !.last = reply,
                               !.sent = IF Len(c.sent) <= MaxDepth
                                        THEN Append(c.sent,
                                                 ForkchoiceUpdatedArgs(retry))
                                        ELSE c.sent]
                ELSE [c EXCEPT !.pc = "returned",
                               !.last = reply,
                               !.ret = Unwind(ForkchoiceUpdatedResult(reply),
                                              Len(c.sent) - 1)]]
    /\ UNCHANGED <<serviceVars, dbVars, responses>>

\* A thread enters Engine.VerifyAndNotifyNewPayload, which returns at once or
\* issues its first RPC.
CallVerifyAndNotifyNewPayload(t) ==
    /\ engineCalls[t].pc = "idle"
    /\ \E req \in NewPayloadRequests :
        LET out == VerifyAndNotifyNewPayload(req, [newPayload |-> Nil])
        IN  engineCalls' = [engineCalls EXCEPT ![t] =
                [Idle EXCEPT !.pc = IF out.rpcs = <<>> THEN "returned"
                                    ELSE Head(out.rpcs),
                             !.kind = "VerifyAndNotifyNewPayload",
                             !.np = req,
                             !.sent = PayloadRpcs(out.rpcs),
                             !.ret.err = out.err]]
    /\ UNCHANGED <<serviceVars, dbVars, responses>>

\* The execution client answers HeaderByHash.
HeaderByHashReturns(t) ==
    /\ engineCalls[t].pc = "HeaderByHash"
    /\ \E reply \in HeaderByHashReplies :
        LET c == engineCalls[t]
            out == VerifyAndNotifyNewPayload(c.np, [newPayload |-> Nil])
        IN  engineCalls' = [engineCalls EXCEPT ![t] =
                [c EXCEPT !.pc = "returned", !.hdr = reply,
                          !.ret.err = out.err]]
    /\ UNCHANGED <<serviceVars, dbVars, responses>>

\* The execution client answers NewPayload.
NewPayloadReturns(t) ==
    /\ engineCalls[t].pc = "NewPayload"
    /\ \E err \in NewPayloadReplies :
        LET c == engineCalls[t]
            out == VerifyAndNotifyNewPayload(c.np, [newPayload |-> err])
        IN  engineCalls' = [engineCalls EXCEPT ![t] =
                [c EXCEPT !.pc = "returned", !.last.err = err,
                          !.ret.err = out.err]]
    /\ UNCHANGED <<serviceVars, dbVars, responses>>

\* The caller takes the result of its call.
CallerTakesResult(t) ==
    /\ engineCalls[t].pc = "returned"
    /\ engineCalls' = [engineCalls EXCEPT ![t] = Idle]
    /\ UNCHANGED <<serviceVars, dbVars, responses>>

EngineNext ==
    \E t \in Threads :
        \/ CallNotifyForkchoiceUpdate(t)
        \/ ForkchoiceUpdatedReturns(t)
        \/ CallVerifyAndNotifyNewPayload(t)
        \/ HeaderByHashReturns(t)
        \/ NewPayloadReturns(t)
        \/ CallerTakesResult(t)

\* The adapter does not read the service's configuration: one configuration
\* stands for all.
EngineInit ==
    /\ Init
    /\ optimisticPayloadBuilds
    /\ localBuilderEnabled

\* The adapter called from several threads.
EngineSpec == EngineInit /\ [][EngineNext]_vars

\* Every RPC the execution client received is answered.
EngineFairness ==
    \A t \in Threads :
        /\ WF_vars(ForkchoiceUpdatedReturns(t))
        /\ WF_vars(HeaderByHashReturns(t))
        /\ WF_vars(NewPayloadReturns(t))

EngineLiveSpec == EngineSpec /\ EngineFairness

\* ------------------------------------------------------ StateDB operations
\* Copy is called on a handle: a branch of its context.
CopyCall ==
    /\ Cardinality(DOMAIN ctxs) <= MaxBranches
    /\ Cardinality(handles) < MaxHandles
    /\ \E h \in handles :
        LET cp == Copy(ctxs, h)
        IN  /\ ctxs' = cp.ctxs
            /\ handles' = handles \cup {cp.st}
            /\ branches' = [branches EXCEPT ![cp.st.ctx] =
                   [made |-> TRUE, parent |-> cp.ctxs[cp.st.ctx].parent,
                    snap |-> HashTreeRoot(ctxs, h), saved |-> FALSE,
                    parentDirty |-> FALSE]]
            /\ dbOp' = [NoOp EXCEPT !.op = "Copy"]
    /\ UNCHANGED <<optimisticPayloadBuilds, localBuilderEnabled,
                   forceStartupSyncOnce, tasks, verifiedBefore,
                   startupHeadRuns, last, engineCalls, responses>>

\* A setter of the BeaconState is called through a handle: the write lands in
\* the handle's context. A branch whose parent reads through that context
\* now has a parent written to since the branch was made.
SetSlotCall ==
    /\ \E h \in handles, v \in SlotValues :
        /\ WriteKey(ctxs, h.ctx, "slot", v) # ctxs
        /\ ctxs' = WriteKey(ctxs, h.ctx, "slot", v)
        /\ branches' = [b \in CtxIds |->
               IF branches[b].made /\ IsUnder(ctxs, branches[b].parent, h.ctx)
               THEN [branches[b] EXCEPT !.parentDirty = TRUE]
               ELSE branches[b]]
        /\ dbOp' = [NoOp EXCEPT !.op = "SetSlot"]
    /\ UNCHANGED <<optimisticPayloadBuilds, localBuilderEnabled,
                   forceStartupSyncOnce, tasks, verifiedBefore,
                   startupHeadRuns, last, engineCalls, handles, responses>>

\* Save is called on a handle.
SaveCall ==
    /\ \E h \in handles :
        LET after == Save(ctxs, h)
            flushed == IF h.write = NilWrite THEN h.ctx ELSE WriteCtx(h)
        IN  /\ ctxs' = after
            /\ branches' = [b \in CtxIds |->
                   IF branches[b].made /\ b \in h.write
                   THEN [branches[b] EXCEPT !.saved = TRUE]
                   ELSE IF branches[b].made /\ h.write # NilWrite
                           /\ IsUnder(ctxs, branches[b].parent,
                                      ctxs[flushed].parent)
                   THEN [branches[b] EXCEPT !.parentDirty = TRUE]
                   ELSE branches[b]]
            /\ dbOp' = [NoOp EXCEPT !.op = "Save", !.recv = h, !.recvAfter = h,
                                    !.result = h, !.arg = flushed,
                                    !.rootBefore =
                                        HashTreeRoot(ctxs, [h EXCEPT
                                                            !.ctx = flushed]),
                                    !.changed = (after # ctxs)]
    /\ UNCHANGED <<optimisticPayloadBuilds, localBuilderEnabled,
                   forceStartupSyncOnce, tasks, verifiedBefore,
                   startupHeadRuns, last, engineCalls, handles, responses>>

\* WithContext is called on a handle with the context of another.
WithContextCall ==
    /\ Cardinality(handles) < MaxHandles
    /\ \E h \in handles, c \in DOMAIN ctxs :
        /\ c # h.ctx
        /\ handles' = (handles \ {h})
                          \cup {WithContextReceiver(h, c), WithContext(h, c)}
        /\ dbOp' = [NoOp EXCEPT !.op = "WithContext", !.recv = h,
                                !.recvAfter = WithContextReceiver(h, c),
                                !.result = WithContext(h, c), !.arg = c]
    /\ UNCHANGED <<ctxs, optimisticPayloadBuilds, localBuilderEnabled,
                   forceStartupSyncOnce, tasks, verifiedBefore,
                   startupHeadRuns, last, engineCalls, branches, responses>>

\* A handle other than the one on the committed state goes out of use.
DropHandle ==
    /\ \E h \in handles \ {StateFromContext} :
        /\ handles' = handles \ {h}
        /\ dbOp' = [NoOp EXCEPT !.op = "Drop"]
    /\ UNCHANGED <<ctxs, optimisticPayloadBuilds, localBuilderEnabled,
                   forceStartupSyncOnce, tasks, verifiedBefore,
                   startupHeadRuns, last, engineCalls, branches, responses>>

StateDBNext ==
    CopyCall \/ SetSlotCall \/ SaveCall \/ WithContextCall \/ DropHandle

\* The StateDB handles in use, whatever the service's configuration.
StateDBSpec == EngineInit /\ [][StateDBNext]_vars

\* ----------------------------------------------------- response, per error
\* createProcessProposalResponse is called with an error.
CreateResponse ==
    /\ Len(responses) < MaxResponses
    /\ \E err \in Errors :
        responses' = Append(responses,
            [in |-> err, out |-> createProcessProposalResponse(err)])
    /\ UNCHANGED <<serviceVars, engineCalls, dbVars>>

\* The record of responses is handed over and starts again.
ResponsesTaken ==
    /\ responses # <<>>
    /\ responses' = <<>>
    /\ UNCHANGED <<serviceVars, engineCalls, dbVars>>

ResponseNext == CreateResponse \/ ResponsesTaken

ResponseSpec == EngineInit /\ [][ResponseNext]_vars

\* ------------------------------------------------------------------ the claims
\* The ProcessProposal call being answered, and what it did.
Called == last.called

Out == last.out

\* The call ended because a step failed with an error that is not fatal.
FailedNonFatal ==
    Called /\ Out.failedStep # "none" /\ Out.stepErr # Nil /\ ~IsFatal(Out.stepErr)

\* C1: every ProcessProposal call in which a step fails with a non-fatal
\* error answers REJECT with a nil RPC error.
C1_NonFatalRejects ==
    FailedNonFatal => Out.resp.Status = "REJECT" /\ Out.err = Nil

\* C2: whenever the transition fails with an error other than the accepted
\* status, VerifyIncomingBlock returns a non-nil error, with optimistic
\* payload builds disabled and with them enabled.
C2_VerificationErrorReturned ==
    (Called /\ Out.ran /\ Out.terr # Nil
        /\ ~ErrorsIs(Out.terr, ErrAcceptedPayloadStatus))
    => Out.vibErr # Nil

\* C3: after any sequence of ProcessProposal calls, whatever their outcomes,
\* the committed state read through the pre-state handle is the one the
\* sequence started from: the transition's writes stay in the copy.
C3_CommittedStateUnchanged ==
    /\ HashTreeRoot(ctxs, StateFromContext) = HashTreeRoot(GenesisCtxs, StateFromContext)
    /\ ctxs[CommittedCtx] = GenesisCtxs[CommittedCtx]
    /\ Called => HashTreeRoot(Out.ctxs, StateFromContext)
                    = HashTreeRoot(GenesisCtxs, StateFromContext)

\* C3 witness: an accepted proposal whose transition wrote the whole
\* post-state into the copy.
C3_Witness ==
    /\ Called /\ Out.ran /\ Out.vsrErr = Nil
    /\ Out.postRoot = GoodBlk.stateRoot
    /\ Out.postRoot # HashTreeRoot(ctxs, StateFromContext)

\* C4: a call in which a step fails with a fatal error returns a non-nil
\* RPC error to the host.
C4_FatalPropagates ==
    (Called /\ Out.failedStep # "none" /\ IsFatal(Out.stepErr))
    => Out.err # Nil

\* The configuration under which VerifyIncomingBlock launches build tasks.
BuildsEnabled == optimisticPayloadBuilds /\ localBuilderEnabled

\* The header read VerifyIncomingBlock makes before launching a task failed.
HeaderReadFailed == last.env.kvErr # Nil

\* The call launched exactly one task of this kind, on the handle described.
LaunchedRebuildOnPre ==
    /\ Len(Out.launched) = 1
    /\ Out.launched[1].kind = "rebuild"
    /\ Out.launched[1].st = StateFromContext

LaunchedOptimisticOnPost ==
    /\ Len(Out.launched) = 1
    /\ Out.launched[1].kind = "optimistic"
    /\ Out.launched[1].st.ctx # CommittedCtx
    /\ Out.launched[1].st.write = {Out.launched[1].st.ctx}
    /\ HashTreeRoot(Out.ctxs, Out.launched[1].st) = Out.postRoot

\* C5, as stated: when the transition returns the accepted status,
\* verifyStateRoot returns nil and VerifyIncomingBlock returns nil and, with
\* optimistic builds enabled, launches the optimistic build on the
\* post-state, never the rebuild; any other transition error is returned
\* unchanged by verifyStateRoot.
C5_AcceptedSwallowed_Original ==
    /\ (Called /\ Out.ran /\ ErrorsIs(Out.terr, ErrAcceptedPayloadStatus))
       => /\ Out.vsrErr = Nil
          /\ Out.vibErr = Nil
          /\ IF BuildsEnabled THEN LaunchedOptimisticOnPost
             ELSE Out.launched = <<>>
    /\ (Called /\ Out.ran /\ ~ErrorsIs(Out.terr, ErrAcceptedPayloadStatus))
       => Out.vsrErr = Out.terr

\* C5, amended: when the transition returns the accepted status,
\* verifyStateRoot returns nil and VerifyIncomingBlock never launches the
\* rebuild; it returns nil and, with optimistic builds enabled, launches the
\* optimistic build on the post-state, unless the read of the latest
\* execution payload header fails, and then it returns the read's error and
\* launches nothing. Any other transition error is returned unchanged by
\* verifyStateRoot.
C5_AcceptedSwallowed ==
    /\ (Called /\ Out.ran /\ ErrorsIs(Out.terr, ErrAcceptedPayloadStatus))
       => /\ Out.vsrErr = Nil
          /\ ~Occurs(Out.trace, "go handleRebuildPayloadForRejectedBlock")
          /\ IF ~BuildsEnabled
             THEN Out.vibErr = Nil /\ Out.launched = <<>>
             ELSE IF HeaderReadFailed
             THEN Out.vibErr = last.env.kvErr /\ Out.launched = <<>>
             ELSE Out.vibErr = Nil /\ LaunchedOptimisticOnPost
    /\ (Called /\ Out.ran /\ ~ErrorsIs(Out.terr, ErrAcceptedPayloadStatus))
       => Out.vsrErr = Out.terr

\* C5 witness: the engine answered ACCEPTED to the proposal's payload and
\* the call launched the optimistic build.
C5_Witness ==
    /\ Called /\ Out.ran /\ Out.terr = ErrAcceptedPayloadStatus
    /\ Out.rpcs = <<"NewPayload">>
    /\ BuildsEnabled /\ LaunchedOptimisticOnPost /\ Out.vibErr = Nil

\* C6: on the ProcessProposal path, when the execution client replies
\* SYNCING to newPayload, the adapter returns the syncing status,
\* verifyStateRoot does not swallow it, and the proposal ends with a
\* non-fatal error and status REJECT.
C6_SyncingRejects ==
    (Called /\ Out.ran /\ Out.rpcs = <<"NewPayload">>
        /\ last.env.el.newPayload = ErrSyncingPayloadStatus)
    => /\ ~Out.tctx.OptimisticEngine
       /\ Out.terr = ErrSyncingPayloadStatus
       /\ Out.vsrErr = ErrSyncingPayloadStatus
       /\ FailedNonFatal
       /\ Out.resp.Status = "REJECT"

\* C7, as stated: with optimistic payload builds enabled and a non-nil
\* block, a rejected block launches exactly one rebuild against the
\* pre-state and no optimistic build, an accepted block exactly one
\* optimistic build against the post-state and no rebuild; with the flag
\* off or the local builder disabled no task is launched.
C7_TaskPerVerdict_Original ==
    (Called /\ Out.ran)
    => IF ~BuildsEnabled THEN Out.launched = <<>>
       ELSE IF Out.vsrErr # Nil THEN LaunchedRebuildOnPre
       ELSE LaunchedOptimisticOnPost

\* C7, amended: the same, provided the read of the latest execution payload
\* header that precedes the launch succeeds; when it fails no task is
\* launched.
C7_TaskPerVerdict ==
    (Called /\ Out.ran)
    => IF ~BuildsEnabled \/ HeaderReadFailed THEN Out.launched = <<>>
       ELSE IF Out.vsrErr # Nil THEN LaunchedRebuildOnPre
       ELSE LaunchedOptimisticOnPost

\* C7 witness: a rejected block with builds enabled launched the rebuild.
C7_Witness ==
    /\ Called /\ Out.ran /\ BuildsEnabled /\ Out.vsrErr = ErrStateRootMismatch
    /\ LaunchedRebuildOnPre
    /\ Len(tasks) >= 1 /\ tasks[Len(tasks)] = Out.launched[1]

\* C8: over any sequence of VerifyIncomingBlock calls on one service,
\* forceStartupHead runs exactly once, in the first call and before that
\* call's transition; no later call runs it.
C8_StartupHeadOnce ==
    /\ startupHeadRuns = (IF verifiedBefore THEN 1 ELSE 0)
    /\ last.pc = "forceStartupHead" =>
        /\ last.firstVerify
        /\ DOMAIN ctxs \subseteq DOMAIN last.cs0
        /\ engineCalls["consensus"].pc # "NewPayload"
    /\ last.pc = "NewPayload" => forceStartupSyncOnce
    /\ Called =>
        /\ Count(Out.trace, "forceStartupHead") = (IF last.firstVerify THEN 1 ELSE 0)
        /\ Before(Out.trace, "forceStartupHead", "Transition")
        /\ Before(Out.trace, "VerifyIncomingBlock", "forceStartupHead")

\* C8 witness: a later VerifyIncomingBlock call that ran its transition
\* without running forceStartupHead again.
C8_Witness ==
    /\ Called /\ Out.vibCalled /\ ~last.firstVerify /\ Out.ran
    /\ startupHeadRuns = 1

\* The blob processor rejects the request's sidecars.
BadSidecars ==
    /\ ~last.req.sidecarsTx.isNil
    /\ \E i \in 1..Len(last.req.sidecarsTx.items) :
          last.req.sidecarsTx.items[i] = "badkzg"

\* C9: ProcessProposal decodes the block, decodes the sidecars, verifies the
\* blobs and calls VerifyIncomingBlock, in this order, and the first step to
\* fail ends the call: when blob verification fails the transition is never
\* run for that proposal.
C9_StepsInOrder ==
    Called =>
    /\ Before(Out.trace, "UnmarshalBeaconBlock", "UnmarshalBlobSidecars")
    /\ Before(Out.trace, "UnmarshalBlobSidecars", "GetHeader")
    /\ Before(Out.trace, "GetHeader", "VerifySidecars")
    /\ Before(Out.trace, "UnmarshalBlobSidecars", "VerifySidecars")
    /\ Before(Out.trace, "UnmarshalBlobSidecars", "VerifyIncomingBlock")
    /\ Before(Out.trace, "VerifySidecars", "VerifyIncomingBlock")
    /\ Before(Out.trace, "VerifyIncomingBlock", "Transition")
    /\ ~last.req.blockTx.ok =>
          /\ Out.failedStep = "decodeBlock"
          /\ Out.trace = <<"UnmarshalBeaconBlock">>
    /\ (last.req.blockTx.ok /\ ~last.req.sidecarsTx.ok) =>
          /\ Out.failedStep = "decodeSidecars"
          /\ Out.trace = <<"UnmarshalBeaconBlock", "UnmarshalBlobSidecars">>
    /\ (last.req.blockTx.ok /\ last.req.sidecarsTx.ok /\ BadSidecars) =>
          Out.failedStep \in {"verifySidecars", "panic"}
    /\ Out.failedStep \in {"verifySidecars", "panic"} =>
          /\ ~Occurs(Out.trace, "VerifyIncomingBlock")
          /\ ~Occurs(Out.trace, "Transition")
          /\ ~Out.vibCalled /\ ~Out.ran
          /\ Out.launched = <<>>
    /\ (last.req.blockTx.ok /\ last.req.sidecarsTx.ok
           /\ Out.failedStep \notin {"verifySidecars", "panic"}) =>
          /\ Out.vibCalled
          /\ Count(Out.trace, "VerifyIncomingBlock") = 1

\* C9 witness: a good block whose sidecars fail blob verification.
C9_Witness ==
    /\ Called /\ last.req.blockTx.ok /\ last.req.blockTx.blk = GoodBlk
    /\ BadSidecars /\ Out.failedStep = "verifySidecars"
    /\ Count(Out.trace, "VerifySidecars") = 1

\* The call was aborted by a panic of GetHeader on a nil block.
AbortedInGetHeader ==
    /\ Called /\ Out.failedStep = "panic"
    /\ last.req.blockTx.blk.isNil

InForkchoiceUpdate(t) == engineCalls[t].kind = "NotifyForkchoiceUpdate"

\* Thread t's NotifyForkchoiceUpdate call has returned to its caller.
ForkchoiceUpdateReturned(t) ==
    InForkchoiceUpdate(t) /\ engineCalls[t].pc = "returned"

\* Thread t's NotifyForkchoiceUpdate call has had a reply and has another
\* ForkchoiceUpdated RPC in flight.
ForkchoiceUpdateReissued(t) ==
    /\ InForkchoiceUpdate(t)
    /\ engineCalls[t].pc = "ForkchoiceUpdated"
    /\ engineCalls[t].last # NoReply

\* Thread t's VerifyAndNotifyNewPayload call has returned to its caller.
NewPayloadReturned(t) ==
    /\ engineCalls[t].kind = "VerifyAndNotifyNewPayload"
    /\ engineCalls[t].pc = "returned"

\* Thread t's call issued this RPC.
Issued(t, rpc) ==
    \E i \in 1..Len(engineCalls[t].sent) : engineCalls[t].sent[i].rpc = rpc

\* C11: NotifyForkchoiceUpdate returns the execution client's payloadID and
\* latestValidHash with a nil error when the client replies VALID, and the
\* payloadID with a nil hash and a nil error when it replies SYNCING or
\* ACCEPTED; after such a reply it issues no further RPC.
C11_ValidAndOptimisticReplies ==
    \A t \in Threads :
        LET c == engineCalls[t]
        IN  /\ (ForkchoiceUpdateReturned(t) /\ Len(c.sent) = 1
                   /\ c.last.err = Nil)
                => c.ret = [payloadID |-> c.last.payloadID,
                            latestValidHash |-> c.last.latestValidHash,
                            err |-> Nil]
            /\ (ForkchoiceUpdateReturned(t) /\ Len(c.sent) = 1
                   /\ c.last.err \in {ErrSyncingPayloadStatus,
                                      ErrAcceptedPayloadStatus})
                => c.ret = [payloadID |-> c.last.payloadID,
                            latestValidHash |-> NilHash, err |-> Nil]
            /\ ForkchoiceUpdateReissued(t)
                => c.last.err \notin {Nil, ErrSyncingPayloadStatus,
                                      ErrAcceptedPayloadStatus}

C11_Witness ==
    \E t \in Threads :
        /\ ForkchoiceUpdateReturned(t)
        /\ Len(engineCalls[t].sent) = 1
        /\ engineCalls[t].last =
               [payloadID |-> "p1", latestValidHash |-> "v1",
                err |-> ErrSyncingPayloadStatus]

\* C12: on an INVALID or INVALID_BLOCK_HASH reply NotifyForkchoiceUpdate
\* issues the forkchoice update again with the head set to the safe block
\* hash and safe, finalized and attributes unchanged; when that retry returns
\* without error the call returns the retry's payloadID and latestValidHash
\* together with ErrBadBlockProduced.
C12_InvalidRetriesFromSafe ==
    \A t \in Threads :
        LET c == engineCalls[t]
        IN  InForkchoiceUpdate(t) =>
            /\ (c.last.err \in {ErrInvalidPayloadStatus,
                                ErrInvalidBlockHashPayloadStatus})
                => (c.pc = "ForkchoiceUpdated" /\ Len(c.sent) >= 2)
            /\ Len(c.sent) >= 2
                => c.sent[2] =
                       [rpc |-> "ForkchoiceUpdated",
                        State |->
                            [HeadBlockHash |-> c.sent[1].State.SafeBlockHash,
                             SafeBlockHash |-> c.sent[1].State.SafeBlockHash,
                             FinalizedBlockHash |->
                                 c.sent[1].State.FinalizedBlockHash],
                        PayloadAttributes |-> c.sent[1].PayloadAttributes]
            /\ (c.pc = "returned" /\ Len(c.sent) = 2 /\ c.last.err = Nil)
                => c.ret = [payloadID |-> c.last.payloadID,
                            latestValidHash |-> c.last.latestValidHash,
                            err |-> ErrBadBlockProduced]
            /\ (c.pc = "returned" /\ Len(c.sent) = 2
                   /\ c.last.err \in {ErrSyncingPayloadStatus,
                                      ErrAcceptedPayloadStatus})
                => c.ret = [payloadID |-> c.last.payloadID,
                            latestValidHash |-> NilHash,
                            err |-> ErrBadBlockProduced]

C12_Witness ==
    \E t \in Threads :
        /\ ForkchoiceUpdateReturned(t)
        /\ Len(engineCalls[t].sent) = 2
        /\ engineCalls[t].sent[1].PayloadAttributes
        /\ engineCalls[t].last =
               [payloadID |-> "p1", latestValidHash |-> "v1", err |-> Nil]

\* C13: one top-level NotifyForkchoiceUpdate call issues at most two
\* ForkchoiceUpdated RPCs, the original and one retry, whatever the execution
\* client replies.
C13_AtMostOneRetry ==
    \A t \in Threads :
        InForkchoiceUpdate(t) => Len(engineCalls[t].sent) <= 2

\* C14: every NotifyForkchoiceUpdate call eventually returns to its caller,
\* given that every RPC is answered, whatever the answers are.
C14_ForkchoiceUpdateReturns ==
    \A t \in Threads :
        (engineCalls[t].pc = "ForkchoiceUpdated")
            ~> (engineCalls[t].pc = "returned")

\* C15: with SkipIfExists set, VerifyAndNotifyNewPayload returns without
\* calling NewPayload only when the block is known to the execution client;
\* when the header lookup finds nothing or fails, NewPayload is called.
C15_SkipOnlyWhenKnown ==
    \A t \in Threads :
        LET c == engineCalls[t]
        IN  (NewPayloadReturned(t) /\ c.np.hashesErr = Nil
                /\ c.np.SkipIfExists
                /\ (~c.hdr.found \/ c.hdr.err # Nil))
            => Issued(t, "NewPayload")

\* C16: when the execution client replies SYNCING or ACCEPTED to NewPayload,
\* VerifyAndNotifyNewPayload returns nil if the request is Optimistic and the
\* status error itself otherwise.
C16_OptimisticSwallowsSyncing ==
    \A t \in Threads :
        LET c == engineCalls[t]
        IN  (NewPayloadReturned(t) /\ Issued(t, "NewPayload")
                /\ c.last.err \in {ErrSyncingPayloadStatus,
                                   ErrAcceptedPayloadStatus})
            => c.ret.err = IF c.np.Optimistic THEN Nil ELSE c.last.err

C16_Witness ==
    \E t \in Threads :
        /\ NewPayloadReturned(t)
        /\ Issued(t, "NewPayload")
        /\ engineCalls[t].np.Optimistic
        /\ engineCalls[t].last.err = ErrSyncingPayloadStatus

\* C17: VerifyAndNotifyNewPayload returns nil on VALID, ErrBadBlockProduced on
\* INVALID or INVALID_BLOCK_HASH whether or not the request is Optimistic, and
\* any other error of the execution client as it is.
C17_NewPayloadClassification ==
    \A t \in Threads :
        LET c == engineCalls[t]
        IN  (NewPayloadReturned(t) /\ Issued(t, "NewPayload")) =>
            /\ c.last.err = Nil => c.ret.err = Nil
            /\ c.last.err \in {ErrInvalidPayloadStatus,
                               ErrInvalidBlockHashPayloadStatus}
                => c.ret.err = ErrBadBlockProduced
            /\ c.last.err = ErrTransport => c.ret.err = ErrTransport

C17_Witness ==
    \E t \in Threads :
        /\ NewPayloadReturned(t)
        /\ Issued(t, "NewPayload")
        /\ engineCalls[t].np.Optimistic
        /\ engineCalls[t].last.err = ErrInvalidBlockHashPayloadStatus

\* C18: when the local check of the block hash and versioned hashes fails,
\* VerifyAndNotifyNewPayload returns that error and calls neither HeaderByHash
\* nor NewPayload.
C18_HashCheckBeforeEngine ==
    \A t \in Threads :
        LET c == engineCalls[t]
        IN  (c.kind = "VerifyAndNotifyNewPayload" /\ c.np.hashesErr # Nil)
            => /\ c.pc = "returned"
               /\ c.ret.err = c.np.hashesErr
               /\ c.sent = <<>>

C18_Witness ==
    \E t \in Threads :
        /\ NewPayloadReturned(t)
        /\ engineCalls[t].np.hashesErr = ErrInvalidVersionedHash
        /\ engineCalls[t].np.SkipIfExists

\* C19: when ForkchoiceUpdated fails with a transport or other unclassified
\* error, NotifyForkchoiceUpdate returns that error with a nil payloadID and a
\* nil latestValidHash and does not retry.
C19_TransportErrorReturned ==
    \A t \in Threads :
        LET c == engineCalls[t]
        IN  (InForkchoiceUpdate(t) /\ c.last.err = ErrTransport)
            => /\ c.pc = "returned"
               /\ c.ret = [payloadID |-> NilID, latestValidHash |-> NilHash,
                           err |-> ErrTransport]

C19_Witness ==
    \E t \in Threads :
        /\ ForkchoiceUpdateReturned(t)
        /\ Len(engineCalls[t].sent) = 1
        /\ engineCalls[t].last =
               [payloadID |-> "p1", latestValidHash |-> "v1",
                err |-> ErrTransport]

\* C20: with the consensus thread and a build task calling the adapter at the
\* same time, at most one ForkchoiceUpdated and at most one NewPayload RPC is
\* in flight to the execution client.
C20_OneInFlightPerKind ==
    /\ Cardinality({t \in Threads :
                       engineCalls[t].pc = "ForkchoiceUpdated"}) <= 1
    /\ Cardinality({t \in Threads : engineCalls[t].pc = "NewPayload"}) <= 1

\* --------------------------------------------- claims: tasks, context, logs
\* C21, as stated: every background task VerifyIncomingBlock launches is
\* handed a branched copy of the state, never the handle on the committed
\* state.
C21_TasksGetBranchedCopy ==
    \A i \in 1..Len(tasks) :
        /\ tasks[i].st.ctx # CommittedCtx
        /\ tasks[i].st # StateFromContext

\* C21, amended: the optimistic build for an accepted block is handed a
\* branched copy of the state, the post-state, never the handle on the
\* committed state; the rebuild for a rejected block is handed the pre-state
\* handle itself.
C21_TasksOnIntendedState ==
    \A i \in 1..Len(tasks) :
        /\ tasks[i].kind = "optimistic"
            => /\ tasks[i].st.ctx # CommittedCtx
               /\ tasks[i].st # StateFromContext
               /\ tasks[i].st.write = {tasks[i].st.ctx}
               /\ ctxs[tasks[i].st.ctx].parent = CommittedCtx
        /\ tasks[i].kind = "rebuild" => tasks[i].st = StateFromContext

C21_Witness ==
    /\ Len(tasks) = 2
    /\ tasks[1].kind = "rebuild"
    /\ tasks[2].kind = "optimistic"

\* C23: every transition verifyStateRoot starts runs with OptimisticEngine,
\* SkipPayloadVerification, SkipValidateResult and SkipValidateRandao false
\* and with the request's proposer address and consensus time.
C23_TransitionFullyVerified ==
    (Called /\ Out.ran) =>
        /\ ~Out.tctx.OptimisticEngine
        /\ ~Out.tctx.SkipPayloadVerification
        /\ ~Out.tctx.SkipValidateResult
        /\ ~Out.tctx.SkipValidateRandao
        /\ Out.tctx.ProposerAddress = last.req.proposerAddress
        /\ Out.tctx.ConsensusTime = last.req.time

C23_Witness ==
    /\ Called /\ Out.ran
    /\ last.req.proposerAddress = 2
    /\ Occurs(Out.trace, "Transition")

\* C24: given a nil block, VerifyIncomingBlock returns the non-fatal
\* ErrNilBlk without copying the state, without running the transition and
\* without launching a background task.
C24_NilBlockAborts ==
    (Called /\ Out.vibCalled /\ last.req.blockTx.blk.isNil) =>
        /\ ErrorsIs(Out.vibErr, ErrNilBlk)
        /\ ~IsFatal(Out.vibErr)
        /\ ~Occurs(Out.trace, "Copy")
        /\ ~Occurs(Out.trace, "Transition")
        /\ ~Out.ran
        /\ Out.launched = <<>>

C24_Witness ==
    /\ Called /\ Out.vibCalled
    /\ last.req.blockTx.blk.isNil
    /\ BuildsEnabled
    /\ Occurs(Out.trace, "Warn: Aborting block verification")

\* The log entries of level error or warn.
ErrorOrWarnEntries ==
    {"Error: rejecting incoming blob sidecars",
     "Warn: Aborting block verification",
     "Error: Rejecting incoming beacon block",
     "Error: failed to verify incoming block"}

\* C25: every ProcessProposal call that ends because a step failed has
\* emitted an error or warn log entry before it returns.
C25_FailureIsLogged ==
    (Called /\ Out.failedStep \notin {"none", "panic"}) =>
        \E i \in 1..Len(Out.trace) : Out.trace[i] \in ErrorOrWarnEntries

\* C27: a NotifyForkchoiceUpdate call during which the execution client
\* answered an invalid status never returns a nil error: it returns
\* ErrBadBlockProduced, or the retry's error with a nil payloadID and a nil
\* latestValidHash.
C27_InvalidNeverReturnsNil ==
    \A t \in Threads :
        LET c == engineCalls[t]
        IN  (ForkchoiceUpdateReturned(t) /\ Len(c.sent) >= 2) =>
            /\ c.ret.err # Nil
            /\ \/ c.ret.err = ErrBadBlockProduced
               \/ /\ c.ret.err = c.last.err
                  /\ c.ret.payloadID = NilID
                  /\ c.ret.latestValidHash = NilHash

C27_Witness ==
    \E t \in Threads :
        /\ ForkchoiceUpdateReturned(t)
        /\ Len(engineCalls[t].sent) >= 2
        /\ engineCalls[t].last =
               [payloadID |-> "p1", latestValidHash |-> "v1", err |-> Nil]

\* C28: NotifyForkchoiceUpdate leaves the caller's request as it was when no
\* reply was an invalid status; after an invalid status the request's
\* HeadBlockHash is its SafeBlockHash and its SafeBlockHash,
\* FinalizedBlockHash and payload attributes are as they were.
C28_RequestMutatedOnlyOnInvalid ==
    \A t \in Threads :
        LET c == engineCalls[t]
            sent0 == c.sent[1]
        IN  ForkchoiceUpdateReturned(t) =>
            /\ Len(c.sent) = 1
                => c.fcu = [State |-> sent0.State,
                            PayloadAttributes |-> sent0.PayloadAttributes]
            /\ Len(c.sent) >= 2
                => c.fcu =
                       [State |->
                            [HeadBlockHash |-> sent0.State.SafeBlockHash,
                             SafeBlockHash |-> sent0.State.SafeBlockHash,
                             FinalizedBlockHash |->
                                 sent0.State.FinalizedBlockHash],
                        PayloadAttributes |-> sent0.PayloadAttributes]

C28_Witness ==
    \E t \in Threads :
        /\ ForkchoiceUpdateReturned(t)
        /\ Len(engineCalls[t].sent) >= 2
        /\ engineCalls[t].fcu.PayloadAttributes
        /\ engineCalls[t].fcu.State.HeadBlockHash = "h1"

\* C29: with optimistic builds enabled, when the read of the latest execution
\* payload header fails, from the post-state after a successful verification
\* or from the pre-state after a failed one, VerifyIncomingBlock returns the
\* read's error and launches no background task.
C29_HeaderReadFailureReturned ==
    (Called /\ Out.ran /\ BuildsEnabled /\ HeaderReadFailed) =>
        /\ Out.vibErr = last.env.kvErr
        /\ Out.launched = <<>>
        /\ ~Occurs(Out.trace, "go handleRebuildPayloadForRejectedBlock")
        /\ ~Occurs(Out.trace, "go handleOptimisticPayloadBuild")

C29_Witness ==
    /\ Called /\ Out.ran /\ BuildsEnabled /\ HeaderReadFailed
    /\ Out.vsrErr = Nil
    /\ Occurs(Out.trace, "GetLatestExecutionPayloadHeader")

\* ------------------------------------------- claims: StateDB and responses
\* What is read through context c.
RootThrough(c) == HashTreeRoot(ctxs, [ctx |-> c, write |-> NilWrite])

\* No handle held reaches branch b: neither its context nor its callback.
Dropped(b) == \A h \in handles : h.ctx # b /\ b \notin h.write

\* C22: writes made through a branch that Copy returned are not visible
\* through its parent until Save is called on the branch; when the branch is
\* dropped without Save the parent reads as it did when the branch was made;
\* after Save the parent reads everything the branch read.
C22_BranchIsolatedUntilSave ==
    /\ \A b \in CtxIds :
        (branches[b].made /\ ~branches[b].saved /\ ~branches[b].parentDirty)
            => RootThrough(branches[b].parent) = branches[b].snap
    /\ (dbOp.op = "Save" /\ dbOp.recv.ctx \in dbOp.recv.write)
        => RootThrough(ctxs[dbOp.arg].parent) = dbOp.rootBefore

C22_Witness ==
    \E b \in CtxIds :
        /\ branches[b].made /\ ~branches[b].saved /\ ~branches[b].parentDirty
        /\ ctxs[b].kv["slot"].set
        /\ RootThrough(b) # RootThrough(branches[b].parent)
        /\ Dropped(b)

\* C26: createProcessProposalResponse always returns a response; the RPC
\* error it returns is non-nil exactly when the status is REJECT, and the
\* status is ACCEPT exactly when the input error is nil or not fatal.
C26_ResponseMatchesFatality ==
    \A i \in 1..Len(responses) :
        LET r == responses[i]
        IN  /\ r.out.resp.Status \in {"ACCEPT", "REJECT"}
            /\ (r.out.err # Nil) <=> (r.out.resp.Status = "REJECT")
            /\ (r.out.resp.Status = "ACCEPT") <=> (r.in = Nil \/ ~r.in.fatal)

C26_Witness ==
    \E i, j \in 1..Len(responses) :
        /\ responses[i].in = MkErr("ErrStateRead", TRUE)
        /\ responses[i].out.resp.Status = "REJECT"
        /\ responses[j].in = MkErr("ErrDecodeBlock", FALSE)
        /\ responses[j].out.resp.Status = "ACCEPT"

\* C30: Save on a handle with no write callback changes nothing; WithContext
\* returns a new handle on the given context with the receiver's write
\* callback and leaves the receiver as it was; Save on a handle derived with
\* WithContext from a branch commits that branch's buffer to its parent.
C30_SaveFollowsWriteCallback ==
    /\ (dbOp.op = "Save" /\ dbOp.recv.write = NilWrite) => ~dbOp.changed
    /\ dbOp.op = "WithContext"
        => /\ dbOp.result.ctx = dbOp.arg
           /\ dbOp.result.write = dbOp.recv.write
           /\ dbOp.recvAfter = dbOp.recv
           /\ {dbOp.recv, dbOp.result} \subseteq handles
    /\ (dbOp.op = "Save" /\ dbOp.recv.write # NilWrite
           /\ dbOp.recv.ctx \notin dbOp.recv.write)
        => /\ branches[dbOp.arg].saved
           /\ RootThrough(ctxs[dbOp.arg].parent) = dbOp.rootBefore

C30_Witness ==
    /\ dbOp.op = "Save"
    /\ dbOp.recv.write # NilWrite
    /\ dbOp.recv.ctx \notin dbOp.recv.write
    /\ dbOp.changed
====
